---- MODULE Spec2Model ----
(***************************************************************************)
(* Planetarium: the graph model (ProjectGraph / FileNode), the change      *)
(* classifier (getFileGitStatus) and the graph builder                     *)
(* (PlanetariumPanel._update / _buildGraph).                               *)
(***************************************************************************)
EXTENDS Integers, Sequences, FiniteSets, TLC

VARIABLES
    nodes,      \* ProjectGraph.nodes: Map<string, FileNode>, in insertion order
    edges,      \* ProjectGraph.edges: Edge[]
    lastCall,   \* the last call made on the graph: arguments and returned value
    world,      \* the workspace and repository as the last gathering that
                \* returned found them
    gathering,  \* _update calls waiting in _buildGraph for the gathered files
    populated,  \* _update calls whose _buildGraph returned, html not yet set
    html,       \* webview.html: the snapshot last published
    passLog,    \* whether the passes in flight overlap, whether the model was
                \* populated by one pass run alone, and the pass behind html
    cPath,      \* classifier: the path asked about
    cSets,      \* classifier: the change sets asked about
    cResult,    \* classifier: the value returned
    rFile,      \* resolver and extractor: uri.path of the file being read
    rImport,    \* resolver: the specifier; extractor: the statement in the file
    rResult,    \* resolver and extractor: the value returned
    repository, \* change-set source: repository.state as the git API shows it
    bCalls,     \* _buildGraph past its await: the calls on the graph still to make
    disposed    \* dispose() has run on the panel

vars == <<nodes, edges, lastCall, world, gathering, populated, html, passLog,
          cPath, cSets, cResult, rFile, rImport, rResult,
          repository, bCalls, disposed>>

(***************************************************************************)
(* Bounds and input domains                                                *)
(***************************************************************************)
MaxEdges == 2        \* edges held at once
MaxSymLen == 2       \* length of a symbol list handed to addEdge
MaxPasses == 2       \* _update calls in flight at once
MaxSpecLen == 5      \* segments of a module specifier

Paths == {"a", "b", "c"}
SymbolNames == {"x", "y"}
NodeStatus == {"added", "removed", "modified", "unchanged"}
EdgeStatus == {"added", "removed", "unchanged"}

AllPairs == Paths \X Paths
\* every pair of distinct paths, and one file that imports itself
NodePairs == { p \in AllPairs : p[1] # p[2] } \cup { <<"a", "a">> }
TwoPairs == { <<"a", "b">>, <<"b", "a">> }

\* every string[] over SymbolNames of length <= MaxSymLen (duplicates included)
EdgeSymLists ==
    UNION { [1..n -> SymbolNames] : n \in 0..MaxSymLen }

\* addNode(path): the default arguments of ProjectGraph.addNode
DefaultNodeInput ==
    [symbols |-> <<>>, linesOfCode |-> 0, gitStatus |-> "unchanged"]

\* (symbols, linesOfCode, gitStatus) arguments handed to addNode
NodeInputs ==
    { [symbols |-> <<>>, linesOfCode |-> 20, gitStatus |-> "unchanged"],
      [symbols |-> <<[name |-> "f", kind |-> "fn"]>>,
       linesOfCode |-> 30, gitStatus |-> "added"],
      [symbols |-> <<[name |-> "f", kind |-> "fn"], [name |-> "g", kind |-> "class"]>>,
       linesOfCode |-> 50, gitStatus |-> "modified"] }

(***************************************************************************)
(* Helpers on sequences                                                    *)
(***************************************************************************)
Range(s) == { s[i] : i \in 1..Len(s) }

NoDuplicates(s) == \A i, j \in 1..Len(s) : i # j => s[i] # s[j]

\* [...new Set(list)]: the distinct elements in order of first appearance
RECURSIVE Dedup(_)
Dedup(s) ==
    IF s = <<>> THEN <<>>
    ELSE LET front == Dedup(SubSeq(s, 1, Len(s) - 1))
             last  == s[Len(s)]
         IN IF last \in Range(front) THEN front ELSE Append(front, last)

(***************************************************************************)
(* FileNode                                                                *)
(***************************************************************************)
FileNode(path, symbols, linesOfCode, gitStatus) ==
    [path |-> path, symbols |-> symbols, linesOfCode |-> linesOfCode,
     gitStatus |-> gitStatus]

updateSymbolsAccumulating(node, symbols, linesOfCode, gitStatus) ==
    [node EXCEPT !.symbols = node.symbols \o symbols,
                 !.linesOfCode = node.linesOfCode + linesOfCode,
                 !.gitStatus = gitStatus]

updateSymbols(node, symbols, linesOfCode, gitStatus) ==
    [node EXCEPT !.symbols = symbols,
                 !.linesOfCode = linesOfCode,
                 !.gitStatus = gitStatus]

(***************************************************************************)
(* ProjectGraph                                                            *)
(***************************************************************************)
NodePaths(ns) == { ns[i].path : i \in 1..Len(ns) }

HasNode(ns, path) == path \in NodePaths(ns)

\* Map.get(path)
getNode(ns, path) == ns[CHOOSE i \in 1..Len(ns) : ns[i].path = path]

addNode(ns, path, symbols, linesOfCode, gitStatus) ==
    IF HasNode(ns, path)
    THEN [i \in 1..Len(ns) |->
            IF ns[i].path = path
            THEN updateSymbols(ns[i], symbols, linesOfCode, gitStatus)
            ELSE ns[i]]
    ELSE Append(ns, FileNode(path, symbols, linesOfCode, gitStatus))

HasEdge(es, source, target) ==
    \E i \in 1..Len(es) : es[i].source = source /\ es[i].target = target

\* Array.find: the first edge of the pair
FindEdge(es, source, target) ==
    CHOOSE i \in 1..Len(es) :
        /\ es[i].source = source /\ es[i].target = target
        /\ \A j \in 1..(i - 1) : ~(es[j].source = source /\ es[j].target = target)

addEdgeAlwaysPush(es, source, target, symbols, gitStatus) ==
    Append(es, [source |-> source, target |-> target, symbols |-> symbols,
                gitStatus |-> gitStatus])

addEdgeOverwriteStatus(es, source, target, symbols, gitStatus) ==
    IF HasEdge(es, source, target)
    THEN LET k == FindEdge(es, source, target)
         IN [es EXCEPT ![k].symbols = Dedup(es[k].symbols \o symbols),
                       ![k].gitStatus = gitStatus]
    ELSE Append(es, [source |-> source, target |-> target, symbols |-> symbols,
                     gitStatus |-> gitStatus])

addEdge(es, source, target, symbols, gitStatus) ==
    IF HasEdge(es, source, target)
    THEN LET k == FindEdge(es, source, target)
         IN [es EXCEPT ![k].symbols = Dedup(es[k].symbols \o symbols),
                       ![k].gitStatus = IF gitStatus # "unchanged"
                                        THEN gitStatus
                                        ELSE es[k].gitStatus]
    ELSE Append(es, [source |-> source, target |-> target, symbols |-> symbols,
                     gitStatus |-> gitStatus])

KeepNode(path, n) == n.path # path
KeepEdge(path, e) == e.source # path /\ e.target # path

\* the value removeNode returns: Map.delete(path)
removeNodeResult(ns, path) == HasNode(ns, path)

removeNodeNodes(ns, path) ==
    SelectSeq(ns, LAMBDA n : KeepNode(path, n))

\* a variant that filters the edges whether or not a node was deleted
removeNodeEdgesUnconditional(ns, es, path) ==
    SelectSeq(es, LAMBDA e : KeepEdge(path, e))

removeNodeEdgesSourceOnly(ns, es, path) ==
    IF HasNode(ns, path)
    THEN SelectSeq(es, LAMBDA e : e.source # path)
    ELSE es

removeNodeEdges(ns, es, path) ==
    IF HasNode(ns, path)
    THEN SelectSeq(es, LAMBDA e : KeepEdge(path, e))
    ELSE es

\* getDependents: the source nodes of the edges entering nodePath, one per edge
getDependents(ns, es, nodePath) ==
    LET dependentEdges == SelectSeq(es, LAMBDA e : e.target = nodePath)
        withSource == SelectSeq(dependentEdges, LAMBDA e : HasNode(ns, e.source))
    IN [i \in 1..Len(withSource) |-> getNode(ns, withSource[i].source)]

\* a variant that follows the edges backwards
getDependenciesReversed(ns, es, nodePath) ==
    LET dependencyEdges == SelectSeq(es, LAMBDA e : e.target = nodePath)
        withSource == SelectSeq(dependencyEdges, LAMBDA e : HasNode(ns, e.source))
    IN [i \in 1..Len(withSource) |-> getNode(ns, withSource[i].source)]

\* getDependencies: the target nodes of the edges leaving nodePath, one per edge
getDependencies(ns, es, nodePath) ==
    LET dependencyEdges == SelectSeq(es, LAMBDA e : e.source = nodePath)
        withTarget == SelectSeq(dependencyEdges, LAMBDA e : HasNode(ns, e.target))
    IN [i \in 1..Len(withTarget) |-> getNode(ns, withTarget[i].target)]

RECURSIVE SumLOC(_)
SumLOC(deps) ==
    IF deps = <<>> THEN 0
    ELSE deps[1].linesOfCode + SumLOC(Tail(deps))

\* a transitive variant: the dependencies' own cumulative size
calculateCumulativeLOCTransitive(ns, es, nodePath) ==
    IF ~HasNode(ns, nodePath) THEN 0
    ELSE LET deps == getDependencies(ns, es, nodePath)
             second == [i \in 1..Len(deps) |->
                          [linesOfCode |->
                             deps[i].linesOfCode
                             + SumLOC(getDependencies(ns, es, deps[i].path))]]
         IN getNode(ns, nodePath).linesOfCode + SumLOC(second)

calculateCumulativeLOC(ns, es, nodePath) ==
    IF ~HasNode(ns, nodePath) THEN 0
    ELSE getNode(ns, nodePath).linesOfCode
         + SumLOC(getDependencies(ns, es, nodePath))

getDisplayData(node) ==
    [id |-> node.path, path |-> node.path, linesOfCode |-> node.linesOfCode,
     gitStatus |-> node.gitStatus]

\* a variant that leaves out the edges with a missing end
getGraphDataWithoutDangling(ns, es) ==
    [nodes |-> [i \in 1..Len(ns) |->
                  getDisplayData(ns[i])
                  @@ [cumulativeLOC |-> calculateCumulativeLOC(ns, es, ns[i].path)]],
     edges |-> SelectSeq(es, LAMBDA e : HasNode(ns, e.source) /\ HasNode(ns, e.target))]

getGraphData(ns, es) ==
    [nodes |-> [i \in 1..Len(ns) |->
                  getDisplayData(ns[i])
                  @@ [cumulativeLOC |-> calculateCumulativeLOC(ns, es, ns[i].path)]],
     edges |-> es]

(***************************************************************************)
(* Change classifier                                                       *)
(***************************************************************************)
NoChanges == [addedFiles |-> {}, removedFiles |-> {}, modifiedFiles |-> {}]

getFileGitStatusRemovedFirst(filePath, gitChanges) ==
    IF filePath \in gitChanges.removedFiles THEN "removed"
    ELSE IF filePath \in gitChanges.addedFiles THEN "added"
    ELSE IF filePath \in gitChanges.modifiedFiles THEN "modified"
    ELSE "unchanged"

getFileGitStatus(filePath, gitChanges) ==
    IF filePath \in gitChanges.addedFiles THEN "added"
    ELSE IF filePath \in gitChanges.removedFiles THEN "removed"
    ELSE IF filePath \in gitChanges.modifiedFiles THEN "modified"
    ELSE "unchanged"

(***************************************************************************)
(* The change-set source: getGitChanges over repository.state              *)
(***************************************************************************)
\* the Status values of the git API that the switches name
INDEX_MODIFIED == 0
INDEX_ADDED == 1
INDEX_DELETED == 2
INDEX_RENAMED == 3
INDEX_COPIED == 4
MODIFIED == 5
DELETED == 6
UNTRACKED == 7
IGNORED == 8
INTENT_TO_ADD == 9

\* a change: the workspace-relative path of change.uri, and change.status
Change(relativePath, status) == [relativePath |-> relativePath, status |-> status]

\* the switch of the loop over repository.state.workingTreeChanges
addWorkingTreeChange(sets, change) ==
    IF change.status \in {INDEX_MODIFIED, INDEX_ADDED, INDEX_DELETED,
                          INDEX_RENAMED, INDEX_COPIED}
    THEN sets
    ELSE IF change.status = MODIFIED
    THEN [sets EXCEPT !.modifiedFiles = @ \cup {change.relativePath}]
    ELSE IF change.status = DELETED
    THEN [sets EXCEPT !.removedFiles = @ \cup {change.relativePath}]
    ELSE IF change.status = UNTRACKED
    THEN [sets EXCEPT !.addedFiles = @ \cup {change.relativePath}]
    ELSE IF change.status = IGNORED
    THEN sets
    ELSE [sets EXCEPT !.modifiedFiles = @ \cup {change.relativePath}]

\* the switch of the loop over repository.state.indexChanges
addIndexChange(sets, change) ==
    IF change.status = INDEX_MODIFIED
    THEN [sets EXCEPT !.modifiedFiles = @ \cup {change.relativePath}]
    ELSE IF change.status = INDEX_ADDED
    THEN [sets EXCEPT !.addedFiles = @ \cup {change.relativePath}]
    ELSE IF change.status = INDEX_DELETED
    THEN [sets EXCEPT !.removedFiles = @ \cup {change.relativePath}]
    ELSE IF change.status \in {INDEX_RENAMED, INDEX_COPIED}
    THEN [sets EXCEPT !.modifiedFiles = @ \cup {change.relativePath}]
    ELSE [sets EXCEPT !.modifiedFiles = @ \cup {change.relativePath}]

RECURSIVE addWorkingTreeChanges(_, _)
addWorkingTreeChanges(sets, changes) ==
    IF changes = <<>> THEN sets
    ELSE addWorkingTreeChanges(addWorkingTreeChange(sets, Head(changes)),
                               Tail(changes))

RECURSIVE addIndexChanges(_, _)
addIndexChanges(sets, changes) ==
    IF changes = <<>> THEN sets
    ELSE addIndexChanges(addIndexChange(sets, Head(changes)), Tail(changes))

\* getGitChanges, given that a repository was found: both loops, in order
getGitChangesOf(state) ==
    addIndexChanges(addWorkingTreeChanges(NoChanges, state.workingTreeChanges),
                    state.indexChanges)

RepositoryState(workingTreeChanges, indexChanges, fetched) ==
    [workingTreeChanges |-> workingTreeChanges, indexChanges |-> indexChanges,
     fetched |-> fetched]

NoRepository == RepositoryState(<<>>, <<>>, FALSE)

\* what the git API can report of one path in each of the two lists
Statuses == INDEX_MODIFIED..INTENT_TO_ADD
ChangesOf(path) == { <<>> } \cup { <<Change(path, st)>> : st \in Statuses }

\* path a under every pair of statuses, next to a deleted or untouched b
Repositories ==
    { RepositoryState(wa \o wb, ia, FALSE) :
        wa \in ChangesOf("a"), wb \in { <<>>, <<Change("b", DELETED)>> },
        ia \in ChangesOf("a") }

(***************************************************************************)
(* Strings: a string is the sequence of its characters "/", ".", ",", " "  *)
(* and of its words (runs of other characters, kept whole)                 *)
(***************************************************************************)
\* a variant that compares the first character only
StartsWithFirstCharacter(s, prefix) ==
    s # <<>> /\ prefix # <<>> /\ s[1] = prefix[1]

\* String.prototype.startsWith
StartsWith(s, prefix) ==
    Len(s) >= Len(prefix) /\ SubSeq(s, 1, Len(prefix)) = prefix

\* String.prototype.split on a one-character separator
RECURSIVE Split(_, _)
Split(s, sep) ==
    IF \A i \in 1..Len(s) : s[i] # sep THEN <<s>>
    ELSE LET i == CHOOSE k \in 1..Len(s) :
                     s[k] = sep /\ \A j \in 1..(k - 1) : s[j] # sep
         IN <<SubSeq(s, 1, i - 1)>> \o Split(SubSeq(s, i + 1, Len(s)), sep)

\* Array.prototype.join
RECURSIVE Join(_, _)
Join(parts, sep) ==
    IF parts = <<>> THEN <<>>
    ELSE IF Len(parts) = 1 THEN parts[1]
    ELSE parts[1] \o <<sep>> \o Join(Tail(parts), sep)

\* String.prototype.trim
RECURSIVE Trim(_)
Trim(s) ==
    IF s = <<>> THEN s
    ELSE IF s[1] = " " THEN Trim(Tail(s))
    ELSE IF s[Len(s)] = " " THEN Trim(SubSeq(s, 1, Len(s) - 1))
    ELSE s

\* Array.prototype.slice(0, end), a negative end counting from the length
SliceTo(a, end) ==
    LET len == Len(a)
        final == IF end < 0 THEN (IF len + end < 0 THEN 0 ELSE len + end)
                 ELSE (IF end > len THEN len ELSE end)
    IN SubSeq(a, 1, final)

\* Array.prototype.slice(start) for 0 <= start
SliceFrom(a, start) == SubSeq(a, start + 1, Len(a))

(***************************************************************************)
(* Path resolver                                                           *)
(***************************************************************************)
ParentSegment == <<".", ".">>

\* workspaceFolders[0].uri.path
WorkspaceRoot == <<"/", "ws">>

NoPath == [found |-> FALSE, path |-> <<>>]
Found(path) == [found |-> TRUE, path |-> path]

\* currentFile.path.substring(0, currentFile.path.lastIndexOf('/'))
currentDirOf(path) ==
    LET slashes == { i \in 1..Len(path) : path[i] = "/" }
    IN IF slashes = {} THEN <<>>
       ELSE SubSeq(path, 1, (CHOOSE i \in slashes : \A j \in slashes : j <= i) - 1)

\* the loop that counts the leading '..' parts
RECURSIVE backCountOf(_)
backCountOf(importParts) ==
    IF importParts # <<>> /\ importParts[1] = ParentSegment
    THEN 1 + backCountOf(Tail(importParts))
    ELSE 0

\* parts.slice(0, parts.length - backCount)
baseInDirectory(parts, backCount) ==
    SliceTo(parts, Len(parts) - backCount)

\* resolvedPath, before any probing; not found for a non-relative specifier
resolvedPathOf(currentFilePath, importPath) ==
    LET currentDir == currentDirOf(currentFilePath)
    IN IF StartsWith(importPath, <<".", "/">>)
       THEN Found(currentDir \o <<"/">> \o SliceFrom(importPath, 2))
       ELSE IF StartsWith(importPath, <<".", ".", "/">>)
       THEN LET parts == Split(currentDir, "/")
                importParts == Split(importPath, "/")
                backCount == backCountOf(importParts)
                baseParts == baseInDirectory(parts, backCount)
                remainingImportParts == SliceFrom(importParts, backCount)
            IN Found(Join(baseParts \o remainingImportParts, "/"))
       ELSE NoPath

extensions ==
    << "ts", "tsx", "js", "jsx", "mts", "mjs", "cts", "cjs",
       "html", "htm", "css", "scss", "sass", "less",
       "py", "pyi", "pyx", "xml" >>

\* vscode.Uri.file: the path of a file URI always starts with a slash
UriFile(path) ==
    IF path # <<>> /\ path[1] = "/" THEN path ELSE <<"/">> \o path

\* the segments of an absolute path
SegmentsOf(path) == IF Len(path) <= 1 THEN <<>> ELSE Split(Tail(path), "/")

\* path normalisation: '.' and empty segments dropped, '..' drops a segment
RECURSIVE NormalizeOnto(_, _)
NormalizeOnto(done, segments) ==
    IF segments = <<>> THEN done
    ELSE LET seg == Head(segments)
         IN IF seg = <<>> \/ seg = <<".">>
            THEN NormalizeOnto(done, Tail(segments))
            ELSE IF seg = ParentSegment
            THEN NormalizeOnto(IF done = <<>> THEN done
                               ELSE SubSeq(done, 1, Len(done) - 1),
                               Tail(segments))
            ELSE NormalizeOnto(Append(done, seg), Tail(segments))

RECURSIVE CommonPrefixLen(_, _)
CommonPrefixLen(a, b) ==
    IF a # <<>> /\ b # <<>> /\ a[1] = b[1]
    THEN 1 + CommonPrefixLen(Tail(a), Tail(b))
    ELSE 0

\* vscode.workspace.asRelativePath(uri): the path relative to the workspace
\* folder that contains it; the path itself when no folder contains it
asRelativePath(uriPath) ==
    LET root == SegmentsOf(WorkspaceRoot)
        segments == SegmentsOf(uriPath)
    IN IF ~StartsWith(segments, root) THEN uriPath
       ELSE LET target == NormalizeOnto(<<>>, segments)
                common == CommonPrefixLen(root, target)
            IN Join([i \in 1..(Len(root) - common) |-> ParentSegment]
                    \o SliceFrom(target, common), "/")

\* relativePath && !relativePath.startsWith('..')
Accepted(relativePath) ==
    relativePath # <<>> /\ ~StartsWith(relativePath, <<".", ".">>)

WithExtensions(resolvedPath) ==
    [i \in 1..Len(extensions) |-> resolvedPath \o <<".", extensions[i]>>]

IndexFiles(resolvedPath) ==
    [i \in 1..Len(extensions) |->
        resolvedPath \o <<"/", "index", ".", extensions[i]>>]

\* a variant that tries the index files first
CandidatesIndexFirst(resolvedPath) ==
    IndexFiles(resolvedPath) \o WithExtensions(resolvedPath) \o <<resolvedPath>>

\* the paths probed, in the order of the three loops
Candidates(resolvedPath) ==
    WithExtensions(resolvedPath) \o IndexFiles(resolvedPath) \o <<resolvedPath>>

RECURSIVE FirstAccepted(_)
FirstAccepted(candidates) ==
    IF candidates = <<>> THEN NoPath
    ELSE LET relativePath == asRelativePath(UriFile(Head(candidates)))
         IN IF Accepted(relativePath) THEN Found(relativePath)
            ELSE FirstAccepted(Tail(candidates))

resolveImportPath(currentFilePath, importPath) ==
    LET resolved == resolvedPathOf(currentFilePath, importPath)
    IN IF ~resolved.found THEN NoPath
       ELSE FirstAccepted(Candidates(resolved.path))

\* files of the workspace, by uri.path
FileAtRoot == <<"/", "ws", "/", "a", ".", "ts">>
FileInSrc == <<"/", "ws", "/", "src", "/", "a", ".", "ts">>
FileInSrcFoo == <<"/", "ws", "/", "src", "/", "foo", "/", "bar", ".", "ts">>

CurrentFiles == { FileAtRoot, FileInSrc, FileInSrcFoo }

SpecifierSegments == { ParentSegment, <<".">>, <<"baz">>, <<"ws">> }

\* every specifier of up to MaxSpecLen segments, an absolute path and a URL
Specifiers ==
    { Join(segments, "/") :
        segments \in UNION { [1..n -> SpecifierSegments] : n \in 1..MaxSpecLen } }
    \cup { <<"/", "baz">>, <<"https:", "/", "/", "baz">> }

(***************************************************************************)
(* Import extractor. A file holds one statement; a statement is its form   *)
(* with the texts the patterns capture: the identifier, the text between   *)
(* the braces, and the specifier between the quotes.                       *)
(***************************************************************************)
\* String.prototype.endsWith
EndsWith(s, suffix) ==
    Len(s) >= Len(suffix)
    /\ SubSeq(s, Len(s) - Len(suffix) + 1, Len(s)) = suffix

\* String.prototype.toLowerCase, on the words used here
toLowerCase(s) ==
    [i \in 1..Len(s) |-> IF s[i] = "TS" THEN "ts" ELSE s[i]]

HasExtension(fileName, exts) ==
    \E e \in exts : EndsWith(fileName, <<".", e>>)

ScriptExtensions == {"ts", "tsx", "js", "jsx", "mts", "mjs", "cts", "cjs"}
StyleExtensions == {"css", "scss", "sass", "less"}
MarkupExtensions == {"html", "htm"}

\* jsImportPatterns, in order: the number of capture groups of each, the
\* strings among those the code looks for that pattern.source includes, and
\* the statement forms the pattern matches ([quote] stands for the class of
\* the three quote characters)
jsImportPatterns ==
    << [groups |-> 2, source |-> {"{"},
        matches |-> {"named"}, captures |-> <<"clause", "specifier">>],
       [groups |-> 2, source |-> {},
        matches |-> {"default"}, captures |-> <<"name", "specifier">>],
       [groups |-> 2, source |-> {"\\*\\s*as"},
        matches |-> {"namespace"}, captures |-> <<"name", "specifier">>],
       [groups |-> 1, source |-> {"import\\s*[quote]"},
        matches |-> {"bare", "cssImport"}, captures |-> <<"specifier">>],
       [groups |-> 3, source |-> {"{"},
        matches |-> {"mixed"}, captures |-> <<"name", "clause", "specifier">>],
       [groups |-> 2, source |-> {"import\\s+type\\s*{", "{"},
        matches |-> {"typeNamed"}, captures |-> <<"clause", "specifier">>],
       [groups |-> 2, source |-> {"import\\s+type\\s+"},
        matches |-> {"typeDefault"}, captures |-> <<"name", "specifier">>],
       [groups |-> 1, source |-> {"require"},
        matches |-> {"require", "requireDestructured", "requireAssigned"},
        captures |-> <<"specifier">>],
       [groups |-> 2, source |-> {"const\\s*{", "require", "{"},
        matches |-> {"requireDestructured"}, captures |-> <<"clause", "specifier">>],
       [groups |-> 2, source |-> {"const\\s+", "require"},
        matches |-> {"requireAssigned"}, captures |-> <<"name", "specifier">>] >>

cssImportPatterns ==
    << [groups |-> 1, source |-> {}, matches |-> {"cssImport"},
        captures |-> <<"specifier">>],
       [groups |-> 1, source |-> {}, matches |-> {"cssUrl"},
        captures |-> <<"specifier">>] >>

htmlImportPatterns ==
    << [groups |-> 1, source |-> {}, matches |-> {"scriptSrc"},
        captures |-> <<"specifier">>],
       [groups |-> 1, source |-> {}, matches |-> {"linkHref"},
        captures |-> <<"specifier">>] >>

\* pattern.exec(fileContent): the match array (match[0] left out), or none
Capture(statement, what) ==
    IF what = "clause" THEN statement.clause
    ELSE IF what = "name" THEN statement.name
    ELSE statement.specifier

exec(pattern, statement) ==
    IF statement.form \in pattern.matches
    THEN [i \in 1..pattern.groups |-> Capture(statement, pattern.captures[i])]
    ELSE <<>>

\* match[1].split(',').map(s => s.trim())
splitNames(text) ==
    LET pieces == Split(text, ",")
    IN [i \in 1..Len(pieces) |-> Trim(pieces[i])]

Sentinel == <<"*">>

NoImport == [extracted |-> FALSE, importPath |-> <<>>, symbols |-> <<>>]
Import(importPath, symbols) ==
    [extracted |-> TRUE, importPath |-> importPath, symbols |-> symbols]

\* a variant that tests for a brace before it tests for three groups
importOfBraceFirst(pattern, match) ==
    LET length == Len(match) + 1
    IN IF "const\\s*{" \in pattern.source
       THEN Import(match[2], splitNames(match[1]))
       ELSE IF "const\\s+" \in pattern.source
       THEN Import(match[2], <<match[1]>>)
       ELSE IF "require" \in pattern.source /\ length = 2
       THEN Import(match[1], <<Sentinel>>)
       ELSE IF "import\\s*[quote]" \in pattern.source
       THEN Import(match[1], <<Sentinel>>)
       ELSE IF "import\\s+type\\s*{" \in pattern.source
       THEN Import(match[2], splitNames(match[1]))
       ELSE IF "import\\s+type\\s+" \in pattern.source
       THEN Import(match[2], <<match[1]>>)
       ELSE IF "\\*\\s*as" \in pattern.source
       THEN Import(match[2], << <<"*", " ", "as", " ">> \o match[1] >>)
       ELSE IF "{" \in pattern.source
       THEN Import(match[2], splitNames(match[1]))
       ELSE IF length = 4
       THEN Import(match[3], <<match[1]>> \o splitNames(match[2]))
       ELSE IF length = 3
       THEN Import(match[2], <<match[1]>>)
       ELSE NoImport

\* the chain of tests on pattern.source and match.length
importOf(pattern, match) ==
    LET length == Len(match) + 1
    IN IF "const\\s*{" \in pattern.source
       THEN Import(match[2], splitNames(match[1]))
       ELSE IF "const\\s+" \in pattern.source
       THEN Import(match[2], <<match[1]>>)
       ELSE IF "require" \in pattern.source /\ length = 2
       THEN Import(match[1], <<Sentinel>>)
       ELSE IF "import\\s*[quote]" \in pattern.source
       THEN Import(match[1], <<Sentinel>>)
       ELSE IF "import\\s+type\\s*{" \in pattern.source
       THEN Import(match[2], splitNames(match[1]))
       ELSE IF "import\\s+type\\s+" \in pattern.source
       THEN Import(match[2], <<match[1]>>)
       ELSE IF length = 4
       THEN Import(match[3], <<match[1]>> \o splitNames(match[2]))
       ELSE IF "\\*\\s*as" \in pattern.source
       THEN Import(match[2], << <<"*", " ", "as", " ">> \o match[1] >>)
       ELSE IF "{" \in pattern.source
       THEN Import(match[2], splitNames(match[1]))
       ELSE IF length = 3
       THEN Import(match[2], <<match[1]>>)
       ELSE NoImport

\* importPath starts with './' or '../': resolve, and push when resolved
pushResolved(imports, currentFilePath, importPath, symbols) ==
    IF StartsWith(importPath, <<".", "/">>) \/ StartsWith(importPath, <<".", ".", "/">>)
    THEN LET resolvedPath == resolveImportPath(currentFilePath, importPath)
         IN IF resolvedPath.found
            THEN Append(imports, [importedFrom |-> resolvedPath.path,
                                  symbols |-> symbols])
            ELSE imports
    ELSE imports

\* the loop over jsImportPatterns
RECURSIVE jsImports(_, _, _, _)
jsImports(imports, patterns, currentFilePath, statement) ==
    IF patterns = <<>> THEN imports
    ELSE LET pattern == Head(patterns)
             match == exec(pattern, statement)
             found == importOf(pattern, match)
         IN jsImports(IF match # <<>> /\ found.extracted /\ found.importPath # <<>>
                      THEN pushResolved(imports, currentFilePath,
                                        found.importPath, found.symbols)
                      ELSE imports,
                      Tail(patterns), currentFilePath, statement)

\* the loops over cssImportPatterns and over htmlImportPatterns
RECURSIVE sentinelImports(_, _, _, _)
sentinelImports(imports, patterns, currentFilePath, statement) ==
    IF patterns = <<>> THEN imports
    ELSE LET match == exec(Head(patterns), statement)
         IN sentinelImports(IF match # <<>>
                            THEN pushResolved(imports, currentFilePath,
                                              match[1], <<Sentinel>>)
                            ELSE imports,
                            Tail(patterns), currentFilePath, statement)

\* a variant that runs the three loops on every file
getImportRelationshipsOfAnyFile(uriPath, statement) ==
    sentinelImports(
        sentinelImports(jsImports(<<>>, jsImportPatterns, uriPath, statement),
                        cssImportPatterns, uriPath, statement),
        htmlImportPatterns, uriPath, statement)

\* the three tests on the file name, each with its loop
getImportRelationships(uriPath, statement) ==
    LET fileName == toLowerCase(uriPath)
        fromScript == IF HasExtension(fileName, ScriptExtensions)
                      THEN jsImports(<<>>, jsImportPatterns, uriPath, statement)
                      ELSE <<>>
        fromStyle == IF HasExtension(fileName, StyleExtensions)
                     THEN sentinelImports(fromScript, cssImportPatterns,
                                          uriPath, statement)
                     ELSE fromScript
    IN IF HasExtension(fileName, MarkupExtensions)
       THEN sentinelImports(fromStyle, htmlImportPatterns, uriPath, statement)
       ELSE fromStyle

StatementForms ==
    { "named", "default", "namespace", "bare", "mixed", "typeNamed",
      "typeDefault", "require", "requireDestructured", "requireAssigned",
      "cssImport", "cssUrl", "scriptSrc", "linkHref" }

\* the text between braces, with the names it lists
Clauses ==
    { [names |-> <<"A">>, text |-> <<"A">>],
      [names |-> <<"A">>, text |-> <<" ", "A", " ">>],
      [names |-> <<"A", "B">>, text |-> <<"A", ",", " ", "B", " ">>],
      [names |-> <<"A", "B">>, text |-> <<" ", "A", " ", ",", "B">>],
      [names |-> <<"B", "A">>, text |-> <<"B", ",", "A">>] }

ExtractSpecifiers ==
    { <<".", "/", "y">>, <<".", ".", "/", "x">>,
      <<".", "/", "styles", ".", "css">>, <<".", "/", ".", ".">>,
      <<"some-package">>, <<"/", "baz">>, <<"https:", "/", "/", "baz">>,
      <<".">>, <<".", ".">>, <<".", "y">> }

Statements ==
    { [form |-> f, name |-> <<"Foo">>, clause |-> c.text, names |-> c.names,
       specifier |-> sp] :
        f \in StatementForms, c \in Clauses, sp \in ExtractSpecifiers }

SourceFiles ==
    { FileAtRoot, FileInSrc,
      <<"/", "ws", "/", "src", "/", "A", ".", "TS">>,
      <<"/", "ws", "/", "src", "/", "a", ".", "css">>,
      <<"/", "ws", "/", "src", "/", "a", ".", "html">>,
      <<"/", "ws", "/", "src", "/", "a", ".", "py">>,
      <<"/", "ws", "/", "src", "/", "ts">> }

(***************************************************************************)
(* Graph builder                                                           *)
(***************************************************************************)
\* the order in which a Set<string> of paths is iterated
PathOrder == <<"a", "b", "c">>
InsertionOrder(set) == SelectSeq(PathOrder, LAMBDA p : p \in set)

FileData(path, symbols, dependencies, linesOfCode, gitStatus) ==
    [path |-> path, symbols |-> symbols, dependencies |-> dependencies,
     linesOfCode |-> linesOfCode, gitStatus |-> gitStatus]

\* a variant that gives a node to every changed path that is not listed
getFilesWithDependenciesAndGitStatusOfAllChanges(files, gitChanges) ==
    LET filesWithGitStatus ==
            [i \in 1..Len(files) |->
                FileData(files[i].path, files[i].symbols, files[i].dependencies,
                         files[i].linesOfCode,
                         getFileGitStatus(files[i].path, gitChanges))]
        listed == { files[i].path : i \in 1..Len(files) }
        changedOnly == SelectSeq(InsertionOrder(gitChanges.removedFiles
                                                \cup gitChanges.addedFiles
                                                \cup gitChanges.modifiedFiles),
                                 LAMBDA p : p \notin listed)
    IN filesWithGitStatus
       \o [i \in 1..Len(changedOnly) |->
             FileData(changedOnly[i], <<>>, <<>>, 0,
                      getFileGitStatus(changedOnly[i], gitChanges))]

\* files: what getFilesWithDependencies returns (sorted by path)
getFilesWithDependenciesAndGitStatus(files, gitChanges) ==
    LET filesWithGitStatus ==
            [i \in 1..Len(files) |->
                FileData(files[i].path, files[i].symbols, files[i].dependencies,
                         files[i].linesOfCode,
                         getFileGitStatus(files[i].path, gitChanges))]
        listed == { files[i].path : i \in 1..Len(files) }
        removedOnly == SelectSeq(InsertionOrder(gitChanges.removedFiles),
                                 LAMBDA p : p \notin listed)
    IN filesWithGitStatus
       \o [i \in 1..Len(removedOnly) |->
             FileData(removedOnly[i], <<>>, <<>>, 0, "removed")]

\* the first loop of _buildGraph
RECURSIVE addAllNodes(_, _)
addAllNodes(ns, filesWithGitStatus) ==
    IF filesWithGitStatus = <<>> THEN ns
    ELSE LET fileData == Head(filesWithGitStatus)
         IN addAllNodes(addNode(ns, fileData.path, fileData.symbols,
                                fileData.linesOfCode, fileData.gitStatus),
                        Tail(filesWithGitStatus))

\* a variant that hands the status of the file on to its edges
edgeGitStatusOfFile(fileGitStatus) ==
    IF fileGitStatus = "modified" THEN "unchanged" ELSE fileGitStatus

\* the status _buildGraph gives the edges of a file
edgeGitStatus(fileGitStatus) ==
    IF fileGitStatus = "added" THEN "added"
    ELSE IF fileGitStatus = "modified" THEN "unchanged"
    ELSE "unchanged"

\* a variant that draws each edge from the imported file to the importing one
RECURSIVE addFileEdgesFromTarget(_, _, _)
addFileEdgesFromTarget(es, fileData, dependencies) ==
    IF dependencies = <<>> THEN es
    ELSE LET dependency == Head(dependencies)
         IN addFileEdgesFromTarget(addEdge(es, dependency.importedFrom,
                                           fileData.path, dependency.symbols,
                                           edgeGitStatus(fileData.gitStatus)),
                                   fileData, Tail(dependencies))

RECURSIVE addFileEdges(_, _, _)
addFileEdges(es, fileData, dependencies) ==
    IF dependencies = <<>> THEN es
    ELSE LET dependency == Head(dependencies)
         IN addFileEdges(addEdge(es, fileData.path, dependency.importedFrom,
                                 dependency.symbols,
                                 edgeGitStatus(fileData.gitStatus)),
                         fileData, Tail(dependencies))

\* the second loop of _buildGraph
RECURSIVE addAllEdges(_, _)
addAllEdges(es, filesWithGitStatus) ==
    IF filesWithGitStatus = <<>> THEN es
    ELSE addAllEdges(addFileEdges(es, Head(filesWithGitStatus),
                                  Head(filesWithGitStatus).dependencies),
                     Tail(filesWithGitStatus))

\* the calls of the first loop of _buildGraph, in order
nodeCallsOf(filesWithGitStatus) ==
    [i \in 1..Len(filesWithGitStatus) |->
        [op |-> "addNode", path |-> filesWithGitStatus[i].path,
         target |-> "none", symbols |-> filesWithGitStatus[i].symbols,
         linesOfCode |-> filesWithGitStatus[i].linesOfCode,
         gitStatus |-> filesWithGitStatus[i].gitStatus]]

\* the calls of the inner loop of the second loop, for one file
edgeCallsOfFile(fileData) ==
    [j \in 1..Len(fileData.dependencies) |->
        [op |-> "addEdge", path |-> fileData.path,
         target |-> fileData.dependencies[j].importedFrom,
         symbols |-> fileData.dependencies[j].symbols,
         linesOfCode |-> 0,
         gitStatus |-> edgeGitStatus(fileData.gitStatus)]]

\* the calls of the second loop of _buildGraph, in order
RECURSIVE edgeCallsOf(_)
edgeCallsOf(filesWithGitStatus) ==
    IF filesWithGitStatus = <<>> THEN <<>>
    ELSE edgeCallsOfFile(Head(filesWithGitStatus))
         \o edgeCallsOf(Tail(filesWithGitStatus))

\* a variant with one loop: each file's node, then that file's edges
RECURSIVE buildGraphCallsFileByFile(_)
buildGraphCallsFileByFile(filesWithGitStatus) ==
    IF filesWithGitStatus = <<>> THEN <<>>
    ELSE nodeCallsOf(<<Head(filesWithGitStatus)>>)
         \o edgeCallsOfFile(Head(filesWithGitStatus))
         \o buildGraphCallsFileByFile(Tail(filesWithGitStatus))

\* the calls _buildGraph makes on the graph once the files are gathered
buildGraphCalls(filesWithGitStatus) ==
    nodeCallsOf(filesWithGitStatus) \o edgeCallsOf(filesWithGitStatus)

\* workspaces: a imports b twice, or a is gone
ListingAB ==
    << [path |-> "a", symbols |-> <<[name |-> "f", kind |-> "fn"]>>,
        dependencies |-> << [importedFrom |-> "b", symbols |-> <<"x">>],
                            [importedFrom |-> "b", symbols |-> <<"y">>] >>,
        linesOfCode |-> 50],
       [path |-> "b", symbols |-> <<>>, dependencies |-> <<>>,
        linesOfCode |-> 30] >>

ListingB ==
    << [path |-> "b", symbols |-> <<>>, dependencies |-> <<>>,
        linesOfCode |-> 30] >>

GitChoices ==
    { NoChanges,
      [NoChanges EXCEPT !.addedFiles = {"a"}],
      [NoChanges EXCEPT !.modifiedFiles = {"a"}],
      [NoChanges EXCEPT !.removedFiles = {"a"}] }

\* a imports the same name of b twice in one statement
ListingDup ==
    << [path |-> "a", symbols |-> <<>>,
        dependencies |-> << [importedFrom |-> "b", symbols |-> <<"x", "x">>] >>,
        linesOfCode |-> 50],
       [path |-> "b", symbols |-> <<>>, dependencies |-> <<>>,
        linesOfCode |-> 30] >>

\* a imports c, which is not listed
ListingDangling ==
    << [path |-> "a", symbols |-> <<>>,
        dependencies |-> << [importedFrom |-> "c", symbols |-> <<"x">>] >>,
        linesOfCode |-> 50],
       [path |-> "b", symbols |-> <<>>, dependencies |-> <<>>,
        linesOfCode |-> 30] >>

\* a was deleted and c is reported as added; neither is listed
RemovedAndAdded ==
    [addedFiles |-> {"c"}, removedFiles |-> {"a"}, modifiedFiles |-> {}]

\* a collaborator that throws: file discovery, the change-set source, or the
\* symbol source, the import extraction or the LOC counter on one file
Fault(part, path) == <<part, path>>

Faults ==
    { Fault("discovery", "*"), Fault("git", "*"), Fault("symbols", "a"),
      Fault("imports", "a"), Fault("loc", "a") }

World(files, git, faults) == [files |-> files, git |-> git, faults |-> faults]

\* every collaborator failing in turn, and the change-set source failing
\* when it would have reported a deleted file
FaultWorlds ==
    { World(ListingAB, [NoChanges EXCEPT !.addedFiles = {"a"}], {ft}) : ft \in Faults }
    \cup { World(ListingB, [NoChanges EXCEPT !.removedFiles = {"a"}],
                 {Fault("git", "*")}) }

BuildWorlds ==
    { World(ListingAB, g, {}) : g \in GitChoices }
    \cup { World(ListingB, g, {}) : g \in { NoChanges,
                                             [NoChanges EXCEPT !.removedFiles = {"a"}] } }
    \cup FaultWorlds
    \cup { World(ListingDup, NoChanges, {}) }
    \cup { World(ListingDangling, NoChanges, {}) }
    \cup { World(ListingB, RemovedAndAdded, {}) }

NoWorld == World(<<>>, NoChanges, {})

\* getFileSymbols: the symbols of the file, [] when the symbol source throws
getFileSymbols(w, file) ==
    IF Fault("symbols", file.path) \in w.faults THEN <<>> ELSE file.symbols

\* getImportRelationships: the relationships extracted, [] when it throws
getImportRelationshipsOrNone(w, file) ==
    IF Fault("imports", file.path) \in w.faults THEN <<>> ELSE file.dependencies

\* getLinesOfCode: the count, 0 when reading the file throws
getLinesOfCode(w, file) ==
    IF Fault("loc", file.path) \in w.faults THEN 0 ELSE file.linesOfCode

\* getFilesWithDependencies, given that file discovery returned
getFilesWithDependencies(w) ==
    [i \in 1..Len(w.files) |->
        [path |-> w.files[i].path,
         symbols |-> getFileSymbols(w, w.files[i]),
         dependencies |-> getImportRelationshipsOrNone(w, w.files[i]),
         linesOfCode |-> getLinesOfCode(w, w.files[i])]]

\* getGitChanges: the change sets, three empty sets when the source throws
getGitChanges(w) ==
    IF Fault("git", "*") \in w.faults THEN NoChanges ELSE w.git

\* what a pass gathers from the world w
Gathered(w) ==
    getFilesWithDependenciesAndGitStatus(getFilesWithDependencies(w),
                                         getGitChanges(w))

\* ProjectGraph.clear on the edge list
clearEdgesKept(es) == es

clearEdges(es) == <<>>

NoPassLog ==
    [overlap |-> FALSE, fresh |-> FALSE,
     inputs |-> NoWorld, alone |-> FALSE, repeat |-> FALSE]

NoHtml == [published |-> FALSE, graphData |-> [nodes |-> <<>>, edges |-> <<>>]]

(***************************************************************************)
(* The graph model driven call by call                                     *)
(***************************************************************************)
classifyVars == <<cPath, cSets, cResult>>
importVars == <<rFile, rImport, rResult>>
gitVars == <<repository>>
passVars == <<bCalls, disposed>>
panelVars == <<world, gathering, populated, html, passLog>>
graphVars == <<nodes, edges, lastCall>>

Call(op, path, target, symbols, linesOfCode, gitStatus, hit, result) ==
    [op |-> op, path |-> path, target |-> target, symbols |-> symbols,
     linesOfCode |-> linesOfCode, gitStatus |-> gitStatus,
     hit |-> hit,            \* the node or edge of that key existed before the call
     result |-> result]

NoCall == Call("none", "none", "none", <<>>, 0, "none", FALSE, "void")

InitGraph ==
    /\ nodes = <<>>
    /\ edges = <<>>
    /\ lastCall = NoCall

InitNoQuery ==
    /\ cPath = "none"
    /\ cSets = NoChanges
    /\ cResult = "none"

NoResult == [done |-> FALSE]

InitNoImport ==
    /\ rFile = <<>>
    /\ rImport = <<>>
    /\ rResult = NoResult

InitNoPanel ==
    /\ world = NoWorld
    /\ gathering = 0
    /\ populated = 0
    /\ html = NoHtml
    /\ passLog = NoPassLog
    /\ bCalls = <<>>
    /\ disposed = FALSE

InitNoRepository ==
    repository = NoRepository

Init == InitGraph /\ InitNoPanel /\ InitNoQuery /\ InitNoImport /\ InitNoRepository

AddNodeCall(path, symbols, linesOfCode, gitStatus) ==
    /\ nodes' = addNode(nodes, path, symbols, linesOfCode, gitStatus)
    /\ lastCall' = Call("addNode", path, "none", symbols, linesOfCode, gitStatus,
                      HasNode(nodes, path), "node")
    /\ UNCHANGED <<edges, panelVars, classifyVars, importVars, gitVars, passVars>>

AddEdgeCall(source, target, symbols, gitStatus) ==
    /\ edges' = addEdge(edges, source, target, symbols, gitStatus)
    /\ lastCall' = Call("addEdge", source, target, symbols, 0, gitStatus,
                      HasEdge(edges, source, target), "void")
    /\ UNCHANGED <<nodes, panelVars, classifyVars, importVars, gitVars, passVars>>

RemoveNodeCall(path) ==
    /\ nodes' = removeNodeNodes(nodes, path)
    /\ edges' = removeNodeEdges(nodes, edges, path)
    /\ lastCall' = Call("removeNode", path, "none", <<>>, 0, "none",
                      HasNode(nodes, path), removeNodeResult(nodes, path))
    /\ UNCHANGED <<panelVars, classifyVars, importVars, gitVars, passVars>>

AddNode(paths, inputs) ==
    \E path \in paths, in \in inputs :
        AddNodeCall(path, in.symbols, in.linesOfCode, in.gitStatus)

AddEdge(pairs, symLists, statuses) ==
    \E pair \in pairs, symbols \in symLists, gitStatus \in statuses :
        /\ ~(~HasEdge(edges, pair[1], pair[2]) /\ Len(edges) >= MaxEdges)
        /\ AddEdgeCall(pair[1], pair[2], symbols, gitStatus)

RemoveNode(paths) ==
    \E path \in paths : RemoveNodeCall(path)

Clear ==
    /\ nodes' = <<>>
    /\ edges' = clearEdges(edges)
    /\ lastCall' = Call("clear", "none", "none", <<>>, 0, "none", FALSE, "void")
    /\ UNCHANGED <<panelVars, classifyVars, importVars, gitVars, passVars>>

GetGraphData ==
    /\ lastCall' = Call("getGraphData", "none", "none", <<>>, 0, "none", FALSE,
                        getGraphData(nodes, edges))
    /\ UNCHANGED <<nodes, edges, panelVars, classifyVars, importVars, gitVars, passVars>>

\* the edge list under every symbol list and status, over two pairs
Next ==
    \/ AddNode({"a"}, {DefaultNodeInput})
    \/ AddEdge(TwoPairs, EdgeSymLists, EdgeStatus)
    \/ RemoveNode({"a", "b"})
    \/ Clear
    \/ GetGraphData

Spec == Init /\ [][Next]_vars

\* the node map under every node input, over every pair
NextNodes ==
    \/ AddNode(Paths, NodeInputs)
    \/ AddEdge(NodePairs, {<<"*">>}, {"unchanged"})
    \/ RemoveNode(Paths)
    \/ Clear
    \/ GetGraphData

SpecNodes == Init /\ [][NextNodes]_vars

(***************************************************************************)
(* The change classifier asked about one path                              *)
(***************************************************************************)
InitClassify ==
    /\ InitGraph /\ InitNoPanel /\ InitNoImport /\ InitNoRepository
    /\ cPath \in Paths
    /\ cSets \in [addedFiles : SUBSET Paths, removedFiles : SUBSET Paths,
                   modifiedFiles : SUBSET Paths]
    /\ cResult = "none"

Classify ==
    /\ cResult = "none"
    /\ cResult' = getFileGitStatus(cPath, cSets)
    /\ UNCHANGED <<graphVars, panelVars, cPath, cSets, importVars, gitVars, passVars>>

NextClassify == Classify

SpecClassify == InitClassify /\ [][NextClassify]_vars

(***************************************************************************)
(* The change sets fetched from one repository, then one path classified   *)
(***************************************************************************)
InitGit ==
    /\ InitGraph /\ InitNoPanel /\ InitNoImport
    /\ repository \in Repositories
    /\ cPath \in {"a", "b"}
    /\ cSets = NoChanges
    /\ cResult = "none"

GetGitChanges ==
    /\ ~repository.fetched
    /\ cSets' = getGitChangesOf(repository)
    /\ repository' = [repository EXCEPT !.fetched = TRUE]
    /\ UNCHANGED <<graphVars, panelVars, cPath, cResult, importVars, passVars>>

ClassifyFetched ==
    /\ repository.fetched
    /\ Classify

NextGit == GetGitChanges \/ ClassifyFetched

SpecGit == InitGit /\ [][NextGit]_vars

(***************************************************************************)
(* The path resolver asked about one specifier                             *)
(***************************************************************************)
InitResolve ==
    /\ InitGraph /\ InitNoPanel /\ InitNoQuery /\ InitNoRepository
    /\ rFile \in CurrentFiles
    /\ rImport \in Specifiers
    /\ rResult = NoResult

Resolve ==
    /\ ~rResult.done
    /\ rResult' = [done |-> TRUE,
                   resolved |-> resolvedPathOf(rFile, rImport),
                   returned |-> resolveImportPath(rFile, rImport)]
    /\ UNCHANGED <<graphVars, panelVars, classifyVars, rFile, rImport, gitVars, passVars>>

NextResolve == Resolve

SpecResolve == InitResolve /\ [][NextResolve]_vars

(***************************************************************************)
(* The import extractor run on one file                                    *)
(***************************************************************************)
InitExtract ==
    /\ InitGraph /\ InitNoPanel /\ InitNoQuery /\ InitNoRepository
    /\ rFile \in SourceFiles
    /\ rImport \in Statements
    /\ rResult = NoResult

Extract ==
    /\ ~rResult.done
    /\ rResult' = [done |-> TRUE,
                   imports |-> getImportRelationships(rFile, rImport)]
    /\ UNCHANGED <<graphVars, panelVars, classifyVars, rFile, rImport, gitVars, passVars>>

NextExtract == Extract

SpecExtract == InitExtract /\ [][NextExtract]_vars

(***************************************************************************)
(* The panel: _update calls, started by the constructor and by refresh     *)
(***************************************************************************)
BuildCall(op, result) == Call(op, "none", "none", <<>>, 0, "none", FALSE, result)

\* the constructor has called _update: the graph is cleared, the files are awaited
InitBuild ==
    /\ nodes = <<>>
    /\ edges = <<>>
    /\ lastCall = BuildCall("clear", "void")
    /\ world = NoWorld
    /\ gathering = 1
    /\ populated = 0
    /\ html = NoHtml
    /\ passLog = NoPassLog
    /\ bCalls = <<>>
    /\ disposed = FALSE
    /\ InitNoQuery /\ InitNoImport /\ InitNoRepository

\* message 'refresh', posted by the page once a snapshot is shown, handled when
\* no continuation is pending: _update runs up to the await in _buildGraph
Refresh ==
    /\ html.published
    /\ populated = 0
    /\ gathering < MaxPasses
    /\ nodes' = <<>>
    /\ edges' = clearEdges(edges)
    /\ lastCall' = BuildCall("clear", "void")
    /\ gathering' = gathering + 1
    /\ passLog' = [passLog EXCEPT !.overlap = (gathering > 0), !.fresh = FALSE]
    /\ UNCHANGED <<world, populated, html, classifyVars, importVars, gitVars, passVars>>

\* the gathered files arrive: _buildGraph adds all nodes, then all edges
FinishGather ==
    /\ gathering > 0
    /\ \E w \in BuildWorlds :
          /\ Fault("discovery", "*") \notin w.faults
          /\ world' = w
          /\ LET filesWithGitStatus == Gathered(w)
             IN /\ nodes' = addAllNodes(nodes, filesWithGitStatus)
                /\ edges' = addAllEdges(edges, filesWithGitStatus)
    /\ lastCall' = BuildCall("buildGraph", "void")
    /\ gathering' = gathering - 1
    /\ populated' = populated + 1
    /\ passLog' = [passLog EXCEPT !.fresh = ~passLog.overlap]
    /\ UNCHANGED <<html, classifyVars, importVars, gitVars, passVars>>

\* findFiles rejects: getFilesWithDependencies, _buildGraph and _update reject
\* in turn; nothing catches, and the rest of _update never runs
RejectGather ==
    /\ gathering > 0
    /\ \E w \in BuildWorlds : Fault("discovery", "*") \in w.faults
    /\ lastCall' = BuildCall("rejected", "void")
    /\ gathering' = gathering - 1
    /\ UNCHANGED <<nodes, edges, world, populated, html, passLog, classifyVars, importVars, gitVars, passVars>>

\* _update resumes after _buildGraph: webview.html is set from getGraphData
Publish ==
    /\ populated > 0
    /\ html' = [published |-> TRUE, graphData |-> getGraphData(nodes, edges)]
    /\ lastCall' = BuildCall("getGraphData", getGraphData(nodes, edges))
    /\ populated' = populated - 1
    /\ passLog' = [passLog EXCEPT
                      !.inputs = world,
                      !.alone = passLog.fresh,
                      !.repeat = /\ html.published
                                 /\ passLog.alone /\ passLog.fresh
                                 /\ passLog.inputs = world]
    /\ UNCHANGED <<nodes, edges, world, gathering, classifyVars, importVars, gitVars, passVars>>

NextBuild == Refresh \/ FinishGather \/ RejectGather \/ Publish

SpecBuild == InitBuild /\ [][NextBuild]_vars

(***************************************************************************)
(* The panel call by call: _buildGraph past its await makes one call on    *)
(* the graph at a time, and the panel can be disposed between two tasks    *)
(***************************************************************************)
\* no continuation is running or queued: the next message can be handled
Idle == bCalls = <<>> /\ populated = 0

\* message 'refresh': _update runs up to the await in _buildGraph
RefreshPass ==
    /\ ~disposed
    /\ Idle
    /\ html.published
    /\ gathering < MaxPasses
    /\ nodes' = <<>>
    /\ edges' = clearEdges(edges)
    /\ lastCall' = BuildCall("clear", "void")
    /\ gathering' = gathering + 1
    /\ UNCHANGED <<world, populated, html, passLog, classifyVars, importVars,
                   gitVars, passVars>>

\* the gathered files arrive: _buildGraph resumes with its calls to make
ResumeBuildGraph ==
    /\ Idle
    /\ gathering > 0
    /\ \E w \in BuildWorlds :
          /\ Fault("discovery", "*") \notin w.faults
          /\ world' = w
          /\ bCalls' = buildGraphCalls(Gathered(w))
    /\ gathering' = gathering - 1
    /\ UNCHANGED <<graphVars, populated, html, passLog, classifyVars, importVars,
                   gitVars, disposed>>

\* findFiles rejects, as in RejectGather
RejectPass ==
    /\ Idle
    /\ RejectGather

\* the next addNode or addEdge call of the two loops; _buildGraph returns
\* after the last one
GraphCall ==
    /\ bCalls # <<>>
    /\ LET call == Head(bCalls)
       IN IF call.op = "addNode"
          THEN /\ nodes' = addNode(nodes, call.path, call.symbols,
                                   call.linesOfCode, call.gitStatus)
               /\ lastCall' = Call("addNode", call.path, "none", call.symbols,
                                   call.linesOfCode, call.gitStatus,
                                   HasNode(nodes, call.path), "node")
               /\ UNCHANGED edges
          ELSE /\ edges' = addEdge(edges, call.path, call.target, call.symbols,
                                   call.gitStatus)
               /\ lastCall' = Call("addEdge", call.path, call.target,
                                   call.symbols, 0, call.gitStatus,
                                   HasEdge(edges, call.path, call.target), "void")
               /\ UNCHANGED nodes
    /\ bCalls' = Tail(bCalls)
    /\ populated' = IF Tail(bCalls) = <<>> THEN populated + 1 ELSE populated
    /\ UNCHANGED <<world, gathering, html, passLog, classifyVars, importVars,
                   gitVars, disposed>>

\* _update resumes after _buildGraph and assigns webview.html; the webview
\* of a disposed panel may refuse the assignment
SetHtml ==
    /\ bCalls = <<>>
    /\ populated > 0
    /\ \/ html' = [published |-> TRUE, graphData |-> getGraphData(nodes, edges)]
       \/ disposed /\ html' = html
    /\ lastCall' = BuildCall("getGraphData", getGraphData(nodes, edges))
    /\ populated' = populated - 1
    /\ UNCHANGED <<nodes, edges, world, gathering, passLog, classifyVars,
                   importVars, gitVars, passVars>>

\* the panel is closed: dispose() runs
Dispose ==
    /\ ~disposed
    /\ Idle
    /\ disposed' = TRUE
    /\ UNCHANGED <<graphVars, panelVars, classifyVars, importVars, gitVars, bCalls>>

NextPass ==
    \/ RefreshPass
    \/ ResumeBuildGraph
    \/ RejectPass
    \/ GraphCall
    \/ SetHtml
    \/ Dispose

SpecPass == InitBuild /\ [][NextPass]_vars

(***************************************************************************)
(* Properties of the graph model                                           *)
(***************************************************************************)
EdgesOf(es, source, target) ==
    { i \in 1..Len(es) : es[i].source = source /\ es[i].target = target }

EdgeAt(es, source, target) ==
    es[CHOOSE i \in EdgesOf(es, source, target) : TRUE]

\* C1: after any sequence of addNode, addEdge, removeNode and clear calls the
\* edge list holds at most one edge for each ordered (source, target) pair.
C1_OneEdgePerPair ==
    \A i, j \in 1..Len(edges) :
        i # j => <<edges[i].source, edges[i].target>>
                 # <<edges[j].source, edges[j].target>>

\* a second addEdge on a pair has just merged, next to an edge of the other pair
C1_Witness ==
    /\ lastCall.op = "addEdge" /\ lastCall.hit
    /\ Len(edges) = 2
    /\ "a" \in NodePaths(nodes)

\* C2: an edge flagged added or removed is never unchanged again while it
\* exists; an addEdge for its pair with status unchanged leaves its status
\* as it was.
C2_StatusNeverReverts ==
    [][\A i \in 1..Len(edges) :
          edges[i].gitStatus \in {"added", "removed"} =>
            /\ \A j \in EdgesOf(edges', edges[i].source, edges[i].target) :
                  edges'[j].gitStatus # "unchanged"
            /\ ( /\ lastCall'.op = "addEdge"
                 /\ lastCall'.path = edges[i].source
                 /\ lastCall'.target = edges[i].target
                 /\ lastCall'.gitStatus = "unchanged" )
               => /\ EdgesOf(edges', edges[i].source, edges[i].target) # {}
                  /\ EdgeAt(edges', edges[i].source, edges[i].target).gitStatus
                     = edges[i].gitStatus
      ]_vars

\* the only edge was flagged, then observed again as unchanged
C2_Witness ==
    /\ lastCall.op = "addEdge" /\ lastCall.hit
    /\ lastCall.gitStatus = "unchanged"
    /\ Len(edges) = 1
    /\ edges[1].gitStatus = "removed"

\* the names of S2 that S1 lacks, in order of first appearance
NewNames(S1, S2) ==
    Dedup(SelectSeq(S2, LAMBDA n : n \notin Range(S1)))

\* C3: addEdge(source, target, S2, st2) on a pair whose edge has symbols S1
\* leaves one edge for the pair, with symbols S1 followed by the names of S2
\* not already in S1, and with status st2 when st2 is not unchanged.
C3_MergeAppendsNewNames ==
    [][(lastCall'.op = "addEdge" /\ lastCall'.hit) =>
         LET source == lastCall'.path
             target == lastCall'.target
             S1 == EdgeAt(edges, source, target).symbols
             S2 == lastCall'.symbols
             st2 == lastCall'.gitStatus
         IN /\ Cardinality(EdgesOf(edges', source, target)) = 1
            /\ EdgeAt(edges', source, target).symbols = S1 \o NewNames(S1, S2)
            /\ st2 # "unchanged"
                 => EdgeAt(edges', source, target).gitStatus = st2
      ]_vars

\* C4: after any sequence of addEdge calls, the first insertion of a pair
\* included, no edge's symbol list contains a name twice.
C4_NoDuplicateSymbols ==
    \A i \in 1..Len(edges) : NoDuplicates(edges[i].symbols)

\* C5: addNode on a path that has a node replaces that node's symbols,
\* linesOfCode and changeStatus by the new values, keeps the number of nodes,
\* and leaves every other node and every edge as it was.
C5_AddNodeOverwrites ==
    [][(lastCall'.op = "addNode" /\ lastCall'.hit) =>
         /\ Len(nodes') = Len(nodes)
         /\ \A i \in 1..Len(nodes) :
               IF nodes[i].path = lastCall'.path
               THEN /\ nodes'[i].path = lastCall'.path
                    /\ nodes'[i].symbols = lastCall'.symbols
                    /\ nodes'[i].linesOfCode = lastCall'.linesOfCode
                    /\ nodes'[i].gitStatus = lastCall'.gitStatus
               ELSE nodes'[i] = nodes[i]
         /\ edges' = edges
      ]_vars

\* a node with an edge and a neighbour has just been overwritten
C5_Witness ==
    /\ lastCall.op = "addNode" /\ lastCall.hit
    /\ lastCall.linesOfCode = 50
    /\ Len(nodes) = 2
    /\ Len(edges) = 1

\* linesOfCode of the node of that path in a snapshot, 0 when there is none
SnapshotLOC(data, path) ==
    LET at == { i \in 1..Len(data.nodes) : data.nodes[i].path = path }
    IN IF at = {} THEN 0 ELSE data.nodes[CHOOSE i \in at : TRUE].linesOfCode

RECURSIVE SumTargets(_, _)
SumTargets(data, edgeIndexes) ==
    IF edgeIndexes = {} THEN 0
    ELSE LET j == CHOOSE k \in edgeIndexes : TRUE
         IN SnapshotLOC(data, data.edges[j].target)
            + SumTargets(data, edgeIndexes \ {j})

\* C6: in the snapshot getGraphData returns, cumulativeLOC of every node is
\* its linesOfCode plus the linesOfCode of the target of each of its outgoing
\* edges whose target is a node (one hop, each edge once).
C6_CumulativeLOCOneHop ==
    lastCall.op = "getGraphData" =>
        LET data == lastCall.result
        IN \A i \in 1..Len(data.nodes) :
              data.nodes[i].cumulativeLOC
              = data.nodes[i].linesOfCode
                + SumTargets(data, { j \in 1..Len(data.edges) :
                                       data.edges[j].source = data.nodes[i].path })

\* A = 50 with edges to B = 30 and C = 20 gives 100
C6_Witness ==
    /\ lastCall.op = "getGraphData"
    /\ \E i, j, k \in 1..Len(lastCall.result.nodes) :
          LET n == lastCall.result.nodes
          IN /\ n[i].path = "a" /\ n[i].linesOfCode = 50
             /\ n[j].path = "b" /\ n[j].linesOfCode = 30
             /\ n[k].path = "c" /\ n[k].linesOfCode = 20
             /\ n[i].cumulativeLOC = 100
    /\ { <<e.source, e.target>> : e \in Range(lastCall.result.edges) }
         = { <<"a", "b">>, <<"a", "c">> }

\* C7: adding or merging an edge whose source is not A leaves
\* cumulativeLOC(A) as it was, for every node A.
C7_NoTransitivePropagation ==
    [][lastCall'.op = "addEdge" =>
         \A A \in NodePaths(nodes) \ {lastCall'.path} :
            calculateCumulativeLOC(nodes', edges', A)
            = calculateCumulativeLOC(nodes, edges, A)
      ]_vars

\* a depends on b, and the edge b -> c has just been added
C7_Witness ==
    /\ lastCall.op = "addEdge" /\ ~lastCall.hit
    /\ lastCall.path = "b" /\ lastCall.target = "c"
    /\ HasEdge(edges, "a", "b")
    /\ NodePaths(nodes) = {"a", "b", "c"}
    /\ calculateCumulativeLOC(nodes, edges, "a")
       = getNode(nodes, "a").linesOfCode + getNode(nodes, "b").linesOfCode

\* C8: removeNode(path) on a path that has a node deletes the node and every
\* edge whose source or target is path, returns true, and leaves the other
\* nodes and the other edges, and their order, as they were.
C8_RemoveNodeCascades ==
    [][(lastCall'.op = "removeNode" /\ HasNode(nodes, lastCall'.path)) =>
         LET path == lastCall'.path
         IN /\ lastCall'.result = TRUE
            /\ ~HasNode(nodes', path)
            /\ \A i \in 1..Len(edges') :
                  edges'[i].source # path /\ edges'[i].target # path
            /\ nodes' = SelectSeq(nodes, LAMBDA n : n.path # path)
            /\ edges' = SelectSeq(edges, LAMBDA e : ~(path \in {e.source, e.target}))
      ]_vars

\* a node with an edge on it was removed; another node and its edge remain
C8_Witness ==
    /\ lastCall.op = "removeNode" /\ lastCall.result = TRUE
    /\ lastCall.path = "b"
    /\ NodePaths(nodes) = {"a", "c"}
    /\ Len(edges) = 1

(***************************************************************************)
(* Properties of the classifier and of the builder                         *)
(***************************************************************************)
\* C9: classify returns added if the path is in the added set, else removed
\* if it is in the removed set, else modified if it is in the modified set,
\* else unchanged, whatever the combination of memberships.
C9_ClassifierPrecedence ==
    cResult # "none" =>
        /\ cPath \in cSets.addedFiles => cResult = "added"
        /\ (cPath \notin cSets.addedFiles /\ cPath \in cSets.removedFiles)
             => cResult = "removed"
        /\ (cPath \notin cSets.addedFiles \cup cSets.removedFiles
             /\ cPath \in cSets.modifiedFiles) => cResult = "modified"
        /\ (cPath \notin cSets.addedFiles \cup cSets.removedFiles
                          \cup cSets.modifiedFiles) => cResult = "unchanged"

\* a path that is in all three sets has been classified
C9_Witness ==
    /\ cPath \in cSets.addedFiles \cap cSets.removedFiles \cap cSets.modifiedFiles
    /\ cResult = "added"

\* C10: after a build pass every edge is added if and only if its source node
\* is added, and is unchanged when its source node is modified, removed or
\* unchanged.
C10_EdgeStatusFollowsSource ==
    (gathering = 0 /\ populated = 0 /\ html.published) =>
        \A i \in 1..Len(edges) :
            HasNode(nodes, edges[i].source) =>
                LET sourceStatus == getNode(nodes, edges[i].source).gitStatus
                IN /\ edges[i].gitStatus = "added" <=> sourceStatus = "added"
                   /\ sourceStatus # "added" => edges[i].gitStatus = "unchanged"

\* C11: for every path of the removed change set that the file listing lacks,
\* the build produces exactly one node, with linesOfCode 0, no symbols, no
\* outgoing edge and status removed; a removed path that is listed has one
\* node, not two.
C11_RemovedFileSynthesis ==
    lastCall.op = "buildGraph" =>
        LET listed == { world.files[i].path : i \in 1..Len(world.files) }
        IN \A p \in getGitChanges(world).removedFiles :
              /\ Cardinality({ i \in 1..Len(nodes) : nodes[i].path = p }) = 1
              /\ p \notin listed =>
                    /\ getNode(nodes, p).linesOfCode = 0
                    /\ getNode(nodes, p).symbols = <<>>
                    /\ getNode(nodes, p).gitStatus = "removed"
                    /\ \A i \in 1..Len(edges) : edges[i].source # p

\* C12: two build passes run in sequence on the same panel with identical
\* inputs publish identical snapshots (nodes, edges, order and field values).
C12_RebuildIdempotent ==
    [][(/\ populated' = populated - 1
        /\ html.published
        /\ passLog.alone /\ passLog.fresh
        /\ passLog.inputs = world)
       => html'.graphData = html.graphData
      ]_vars

\* a second pass run alone on the same inputs has published a graph with an
\* added edge, a file of 50 lines and a synthesized or listed second file
C12_Witness ==
    /\ passLog.repeat
    /\ Len(html.graphData.nodes) = 2
    /\ \E i \in 1..Len(html.graphData.edges) :
          html.graphData.edges[i].gitStatus = "added"

\* the paths a per-file collaborator failed on
FailedPaths(w) == { ft[2] : ft \in w.faults } \ {"*"}

\* C18: when the symbol source, the LOC counter, the import extraction or the
\* change-set source fails, the file still gets a node, with the default for
\* the failed part (no symbols, 0 LOC, no outgoing edges, or status unchanged
\* and no synthesized removed node), and the nodes and edges of every other
\* file are what they would be had nothing failed.
C18_FailuresAbsorbed ==
    [][(lastCall'.op = "buildGraph" /\ world'.faults # {}) =>
         LET w == world'
             listed == { w.files[i].path : i \in 1..Len(w.files) }
             clean == Gathered(World(w.files, w.git, {}))
             cleanNodes == addAllNodes(nodes, clean)
             cleanEdges == addAllEdges(edges, clean)
             Others(es) == SelectSeq(es, LAMBDA e : e.source \notin FailedPaths(w))
         IN /\ \A p \in listed :
                  /\ HasNode(nodes', p)
                  /\ Fault("symbols", p) \in w.faults
                       => getNode(nodes', p).symbols = <<>>
                  /\ Fault("loc", p) \in w.faults
                       => getNode(nodes', p).linesOfCode = 0
                  /\ Fault("imports", p) \in w.faults
                       => \A i \in 1..Len(edges') : edges'[i].source # p
                  /\ Fault("git", "*") \in w.faults
                       => getNode(nodes', p).gitStatus = "unchanged"
            /\ Fault("git", "*") \in w.faults => NodePaths(nodes') = listed
            /\ Fault("git", "*") \notin w.faults =>
                  /\ Len(nodes') = Len(cleanNodes)
                  /\ \A i \in 1..Len(nodes') :
                        nodes'[i].path \notin FailedPaths(w)
                           => nodes'[i] = cleanNodes[i]
                  /\ Others(edges') = Others(cleanEdges)
      ]_vars

\* C19: every build pass started by the constructor or by a refresh message
\* completes and publishes: when no pass is in flight a snapshot has been
\* published and it is the snapshot of the model as the last pass left it.
C19_EveryPassPublishes ==
    (gathering = 0 /\ populated = 0) =>
        /\ html.published
        /\ html.graphData = getGraphData(nodes, edges)

\* C20: addEdge accepts an edge whose source or target is not a node and
\* creates no node; getGraphData returns one entry per node, in order, and
\* every edge, dangling ones included, and changes neither nodes nor edges.
C20_DanglingEdgesKept ==
    [][/\ lastCall'.op = "addEdge" =>
             /\ nodes' = nodes
             /\ HasEdge(edges', lastCall'.path, lastCall'.target)
       /\ lastCall'.op = "getGraphData" =>
             /\ nodes' = nodes
             /\ edges' = edges
             /\ Len(lastCall'.result.nodes) = Len(nodes)
             /\ \A i \in 1..Len(nodes) :
                   lastCall'.result.nodes[i].path = nodes[i].path
             /\ lastCall'.result.edges = edges
      ]_vars

\* a snapshot of one node and two edges: one from a path that is no node, one
\* to a path that is no node
C20_Witness ==
    /\ lastCall.op = "getGraphData"
    /\ NodePaths(nodes) = {"a"}
    /\ Len(lastCall.result.nodes) = 1
    /\ { <<e.source, e.target>> : e \in Range(lastCall.result.edges) }
         = { <<"a", "b">>, <<"b", "a">> }

\* a specifier that begins neither with "./" nor with "../"
NonRelative(specifier) ==
    /\ ~(Len(specifier) >= 2 /\ specifier[1] = "." /\ specifier[2] = "/")
    /\ ~(Len(specifier) >= 3 /\ specifier[1] = "." /\ specifier[2] = "."
         /\ specifier[3] = "/")

\* C13: a statement whose specifier does not begin with './' or '../' (a
\* package name, an absolute path, a URL, '.' or '..') yields no
\* relationship, in a file of any kind
C13_NonRelativeYieldsNothing ==
    (rResult.done /\ NonRelative(rImport.specifier)) => rResult.imports = <<>>

C13_Witness ==
    /\ rResult.done
    /\ rFile = FileInSrc
    /\ rImport.form = "default"
    /\ rImport.specifier = <<"some-package">>
    /\ rResult.imports = <<>>

\* C14: for a specifier with k leading '..' parts the resolved path is the
\* current file's directory without its last k components (none of them
\* when k exceeds their number), followed by the remaining parts
C14_ParentSegmentsRemoveExactlyK ==
    (rResult.done /\ ~NonRelative(rImport) /\ rImport[1] = "." /\ rImport[2] = ".")
    => LET parts == Split(currentDirOf(rFile), "/")
           importParts == Split(rImport, "/")
           k == backCountOf(importParts)
           kept == IF k >= Len(parts) THEN 0 ELSE Len(parts) - k
       IN rResult.resolved =
              Found(Join(SubSeq(parts, 1, kept)
                         \o SubSeq(importParts, k + 1, Len(importParts)), "/"))

\* the number of directories between the workspace root and the file
DepthOf(filePath) ==
    Len(SegmentsOf(currentDirOf(filePath))) - Len(SegmentsOf(WorkspaceRoot))

\* C15: a path that resolveImportPath returns is relative to the workspace
\* root and does not leave it, and a specifier with more leading '..' parts
\* than the file is deep below the root yields no path
C15_NeverOutsideWorkspace ==
    rResult.done =>
        /\ rResult.returned.found =>
               /\ rResult.returned.path # <<>>
               /\ rResult.returned.path[1] # "/"
               /\ Split(rResult.returned.path, "/")[1] # ParentSegment
        /\ (~NonRelative(rImport) /\ rImport[1] = "." /\ rImport[2] = "."
            /\ backCountOf(Split(rImport, "/")) > DepthOf(rFile))
           => ~rResult.returned.found

\* the path probed at a position: the extensions in list order, then the
\* index files in the same order, then the exact path
ProbeAt(resolvedPath, j) ==
    IF j <= Len(extensions)
    THEN resolvedPath \o <<".", extensions[j]>>
    ELSE IF j <= 2 * Len(extensions)
    THEN resolvedPath \o <<"/", "index", ".", extensions[j - Len(extensions)]>>
    ELSE resolvedPath

\* C16: the returned path is the workspace-relative form of the first probe
\* that is accepted, the probes being the path with each extension, then the
\* index file with each extension, then the path itself; '../baz' imported
\* from src/foo/bar.ts gives src/baz.ts
C16_ProbeOrder ==
    (rResult.done /\ rResult.resolved.found) =>
        LET positions == 1..(2 * Len(extensions) + 1)
            relativeAt(j) == asRelativePath(UriFile(ProbeAt(rResult.resolved.path, j)))
            accepted == { j \in positions : Accepted(relativeAt(j)) }
        IN /\ IF accepted = {} THEN ~rResult.returned.found
              ELSE rResult.returned =
                       Found(relativeAt(CHOOSE j \in accepted :
                                            \A other \in accepted : j <= other))
           /\ (rFile = FileInSrcFoo /\ rImport = <<".", ".", "/", "baz">>)
              => rResult.returned = Found(<<"src", "/", "baz", ".", "ts">>)

C16_Witness ==
    /\ rResult.done
    /\ rFile = FileInSrcFoo
    /\ rImport = <<".", ".", "/", "baz">>
    /\ rResult.returned = Found(<<"src", "/", "baz", ".", "ts">>)

\* the symbols of the names listed between braces
SymbolsNamed(names) == [i \in 1..Len(names) |-> <<names[i]>>]

\* C17: in a script file a bare import yields the symbols ['*'], a named
\* import the listed names in order, a mixed import the default name then
\* the listed names, and each such statement yields exactly one
\* relationship, to the path its specifier resolves to
C17_SymbolsOfImportForms ==
    (/\ rResult.done
     /\ HasExtension(toLowerCase(rFile), ScriptExtensions)
     /\ rImport.form \in {"bare", "named", "mixed"}
     /\ ~NonRelative(rImport.specifier)
     /\ resolveImportPath(rFile, rImport.specifier).found)
    => /\ Len(rResult.imports) = 1
       /\ rResult.imports[1].importedFrom =
              resolveImportPath(rFile, rImport.specifier).path
       /\ rResult.imports[1].symbols =
              IF rImport.form = "bare" THEN << <<"*">> >>
              ELSE IF rImport.form = "named" THEN SymbolsNamed(rImport.names)
              ELSE <<rImport.name>> \o SymbolsNamed(rImport.names)

C17_Witness ==
    /\ rResult.done
    /\ rFile = FileInSrc
    /\ rImport.form = "mixed"
    /\ rImport.specifier = <<".", "/", "y">>
    /\ rImport.clause = <<" ", "A", " ", ",", "B">>
    /\ rResult.imports = << [importedFrom |-> <<"src", "/", "y", ".", "ts">>,
                             symbols |-> << <<"Foo">>, <<"A">>, <<"B">> >>] >>

\* the model a pass builds from an empty one out of what it gathered
FromEmpty(w) ==
    [nodes |-> addAllNodes(<<>>, Gathered(w)),
     edges |-> addAllEdges(<<>>, Gathered(w))]

\* C21: when a pass has finished populating, and when a snapshot is
\* published, the nodes and edges are exactly those of that one pass's
\* inputs, built from an empty model
C21_PassStartsFromEmpty ==
    /\ lastCall.op = "buildGraph"
       => (nodes = FromEmpty(world).nodes /\ edges = FromEmpty(world).edges)
    /\ lastCall.op = "getGraphData"
       => html.graphData = getGraphData(FromEmpty(world).nodes,
                                        FromEmpty(world).edges)

\* C22: in the change sets that getGitChanges returns, no path is in two of
\* the three sets, whatever its working-tree and index statuses are
C22_ChangeSetsDisjoint ==
    repository.fetched =>
        /\ cSets.addedFiles \cap cSets.removedFiles = {}
        /\ cSets.addedFiles \cap cSets.modifiedFiles = {}
        /\ cSets.removedFiles \cap cSets.modifiedFiles = {}

\* the paths of the listing the running pass gathered
ListedPaths(w) == { w.files[i].path : i \in 1..Len(w.files) }

\* C23: when a pass inserts an edge, none of its addNode calls is still to
\* come: every file of its listing has a node, so the edge's source has
\* one, and so has its target when the target is a path of the listing
C23_NodesBeforeEdges ==
    [][(bCalls # <<>> /\ Head(bCalls).op = "addEdge" /\ bCalls' = Tail(bCalls))
       => /\ \A i \in 1..Len(bCalls) : bCalls[i].op # "addNode"
          /\ ListedPaths(world) \subseteq NodePaths(nodes)
          /\ HasNode(nodes, lastCall'.path)
          /\ lastCall'.target \in ListedPaths(world)
             => HasNode(nodes, lastCall'.target)]_vars

C23_Witness ==
    /\ lastCall.op = "addEdge"
    /\ lastCall.path = "a"
    /\ lastCall.target = "b"
    /\ ~lastCall.hit
    /\ bCalls # <<>>
    /\ NodePaths(nodes) = {"a", "b"}
    /\ ListedPaths(world) = {"a", "b"}

\* C30: once the panel is disposed nothing changes the model or the
\* webview's html any more
C30_NoEffectAfterDispose ==
    [][disposed => (nodes' = nodes /\ edges' = edges /\ html' = html)]_vars

\* C24: while a pass is between its clear() and the return of its
\* gathering, the model holds no node and no edge
C24_EmptyUntilGathered ==
    gathering > 0 => (nodes = <<>> /\ edges = <<>>)

\* the family of a file, by the extension its name ends with
FamilyOf(filePath) ==
    LET n == Len(filePath)
        ext == IF n >= 2 /\ filePath[n - 1] = "." THEN filePath[n] ELSE "none"
    IN IF ext \in {"ts", "TS", "tsx", "js", "jsx", "mts", "mjs", "cts", "cjs"}
       THEN "script"
       ELSE IF ext \in {"css", "scss", "sass", "less"} THEN "stylesheet"
       ELSE IF ext \in {"html", "htm"} THEN "markup"
       ELSE "other"

\* C25: a file outside the three families yields no relationship whatever
\* it holds; a stylesheet yields one only from an @import, a markup file
\* only from a script or link reference, and a script file from neither an
\* @import url(...) nor a markup reference
C25_OnlyThreeFamiliesExtract ==
    (rResult.done /\ rResult.imports # <<>>) =>
        /\ FamilyOf(rFile) # "other"
        /\ FamilyOf(rFile) = "stylesheet"
           => rImport.form \in {"cssImport", "cssUrl"}
        /\ FamilyOf(rFile) = "markup"
           => rImport.form \in {"scriptSrc", "linkHref"}
        /\ FamilyOf(rFile) = "script"
           => rImport.form \notin {"cssUrl", "scriptSrc", "linkHref"}

C25_Witness ==
    /\ rResult.done
    /\ rFile = <<"/", "ws", "/", "src", "/", "a", ".", "py">>
    /\ rImport.form = "named"
    /\ rImport.specifier = <<".", "/", "y">>
    /\ rResult.imports = <<>>

\* C26: after a pass run alone has populated the model, and in the snapshot
\* it publishes, the source of every edge is the path of a node
C26_EdgeSourcesExist ==
    /\ (lastCall.op = "buildGraph" /\ passLog.fresh)
       => \A i \in 1..Len(edges) : HasNode(nodes, edges[i].source)
    /\ (lastCall.op = "getGraphData" /\ passLog.alone)
       => \A i \in 1..Len(html.graphData.edges) :
             \E k \in 1..Len(html.graphData.nodes) :
                html.graphData.nodes[k].path = html.graphData.edges[i].source

C26_Witness ==
    /\ lastCall.op = "getGraphData"
    /\ passLog.alone
    /\ \E i \in 1..Len(html.graphData.edges) :
          /\ html.graphData.edges[i].source = "a"
          /\ html.graphData.edges[i].target = "c"
    /\ \A k \in 1..Len(html.graphData.nodes) : html.graphData.nodes[k].path # "c"

C29_NodesAreListingAndRemoved ==
    (lastCall.op = "buildGraph" /\ passLog.fresh)
    => /\ NodePaths(nodes)
            = ListedPaths(world) \cup getGitChanges(world).removedFiles
       /\ NoDuplicates([i \in 1..Len(nodes) |-> nodes[i].path])

C29_Witness ==
    /\ lastCall.op = "buildGraph"
    /\ passLog.fresh
    /\ world.git = RemovedAndAdded
    /\ NodePaths(nodes) = {"a", "b"}

\* C28: removeNode of a path that has no node returns false and changes
\* neither the nodes nor the edges, those on that path included
C28_RemoveMissingNodeIsNoOp ==
    [][(lastCall'.op = "removeNode" /\ ~HasNode(nodes, lastCall'.path)) =>
         /\ lastCall'.result = FALSE
         /\ nodes' = nodes
         /\ edges' = edges
      ]_vars

\* removeNode was called on b, which has no node but is on both edges
C28_Witness ==
    /\ lastCall.op = "removeNode"
    /\ lastCall.path = "b"
    /\ lastCall.result = FALSE
    /\ HasNode(nodes, "a")
    /\ HasEdge(edges, "a", "b")
    /\ HasEdge(edges, "b", "a")

====
